---- MODULE Spec2Model ----
(***************************************************************************)
(* Model of the dome master camera ray generator                           *)
(*   src/Ch_04_A_Planetarium_Dome_Master_Camera/dome_master_camera.cu      *)
(*                                                                         *)
(* One behaviour is one invocation of camera_dome_general<STEREO_ON,       *)
(* DOF_ON>() for one pixel (one GPU thread).  The launch parameters are    *)
(* chosen in Init and never change.                                        *)
(*                                                                         *)
(* Numbers.  The code computes in float; the model computes the same       *)
(* quantities exactly, in integers:                                        *)
(*   - a jitter offset is jxy / JitterDiv, jxy \in 0 .. JitterDiv-1;       *)
(*   - an angle (rd.x, rd.y, rangle, rmax) is counted in units of          *)
(*       (M_PIf/180)*fov / (2 * JitterDiv * viewport_sz.x * viewport_sz.y) *)
(*     radians, so that rd.x, rd.y and rmax are integers; hypotf is kept   *)
(*     as its square (R2, RMax2);                                          *)
(*   - eyeshift is counted in units of 0.5f * cam_stereo_eyesep;           *)
(*   - sinf/cosf values and the camera basis are kept symbolic: a vector   *)
(*     is its three coefficients on cam_U, cam_V, cam_W, each a term       *)
(*     [f, m] standing for  f(rangle) * m  (m in angle units), with        *)
(*       "one" = 1, "rsin" = sin(rangle)/rangle, "rcos" = cos(rangle)/     *)
(*       rangle, "rasin" = sin(rangle), "racos" = cos(rangle),             *)
(*       "inv" = 1/rangle;                                                 *)
(*   - a colour is one integer channel;                                    *)
(*   - viewport_idx_y (uint) is the mathematical value of its expression:  *)
(*     launch_index.y - viewport_sz_y wraps around exactly when that value *)
(*     is negative.                                                        *)
(* Float rounding is therefore not modelled.                               *)
(***************************************************************************)
EXTENDS Integers, Sequences, FiniteSets, Bags

\* ---------------------------------------------------------------- bounds
MaxW == 2
MaxH == 4
MaxAA == 2
JitterDiv == 2

VARIABLES
  STEREO_ON, DOF_ON,       \* template parameters of camera_dome_general
  launch_dim, launch_index, aa_samples,
  pc,                      \* "entry", "loop", "trace", "done"
  viewport_sz_y, viewport_idx_y, eyeshift,
  randseed, col, alpha, s,
  up_direction, right_direction,
  jxy, rd,                 \* the sample of the last started iteration
  hit,                     \* whether that iteration took the rangle < rmax branch
  traced,                  \* the arguments of the last rtTrace call
  nInside,                 \* history: samples drawn with rangle < rmax
  nTraced,                 \* history: rtTrace calls
  nOffCentre,              \* history: rtTrace calls with rangle # 0
  returned,                \* history: the bag of payloads rtTrace returned
  accumulated              \* history: the accumulate_color calls

vars == <<STEREO_ON, DOF_ON, launch_dim, launch_index, aa_samples, pc,
          viewport_sz_y, viewport_idx_y, eyeshift, randseed, col, alpha, s,
          up_direction, right_direction, jxy, rd, hit, traced, nInside,
          nTraced, nOffCentre, returned, accumulated>>

params == <<STEREO_ON, DOF_ON, launch_dim, launch_index, aa_samples>>

\* ------------------------------------------------------- symbolic vectors
Term(f, m) == [f |-> f, m |-> m]
Vec(u, v, w) == [U |-> u, V |-> v, W |-> w]
ZeroVec == Vec(Term("one", 0), Term("one", 0), Term("one", 0))
cam_W == Vec(Term("one", 0), Term("one", 0), Term("one", 1))

\* ------------------------------------------------ lines 28-47: the viewport
ViewportPartition_SwapSign(stereo, dimy, y) ==
  IF stereo = 1
  THEN LET sz == dimy \div 2
       IN  IF y >= sz
           THEN [sz |-> sz, idx |-> y - sz, eyeshift |-> 1]
           ELSE [sz |-> sz, idx |-> y, eyeshift |-> -1]
  ELSE [sz |-> dimy, idx |-> y, eyeshift |-> 0]

ViewportPartition_NoOffset(stereo, dimy, y) ==
  IF stereo = 1
  THEN LET sz == dimy \div 2
       IN  IF y >= sz
           THEN [sz |-> sz, idx |-> y, eyeshift |-> -1]
           ELSE [sz |-> sz, idx |-> y, eyeshift |-> 1]
  ELSE [sz |-> dimy, idx |-> y, eyeshift |-> 0]

ViewportPartition_WrongBranch(stereo, dimy, y) ==
  IF stereo = 1
  THEN LET sz == dimy \div 2
       IN  IF y > sz
           THEN [sz |-> sz, idx |-> y, eyeshift |-> -1]
           ELSE [sz |-> sz, idx |-> y - sz, eyeshift |-> 1]
  ELSE [sz |-> dimy, idx |-> y, eyeshift |-> 0]

ViewportPartition(stereo, dimy, y) ==
  IF stereo = 1
  THEN LET sz == dimy \div 2                     \* launch_dim.y >> 1
       IN  IF y >= sz
           THEN \* "left image"
                [sz |-> sz, idx |-> y - sz, eyeshift |-> -1]
           ELSE \* "right image"
                [sz |-> sz, idx |-> y, eyeshift |-> 1]
  ELSE [sz |-> dimy, idx |-> y, eyeshift |-> 0]

\* ------------------------------------- lines 49-63, 73-77: angles of a sample
\* rd = (viewport_idx - viewport_mid) * radperpix, in angle units
RD_MidIsSize(w, h, x, y, j) ==
  [x |-> (2 * (JitterDiv * x + j[1]) - 2 * JitterDiv * w) * h,
   y |-> (2 * (JitterDiv * y + j[2]) - 2 * JitterDiv * h) * w]

RD(w, h, x, y, j) ==
  [x |-> (2 * (JitterDiv * x + j[1]) - JitterDiv * w) * h,
   y |-> (2 * (JitterDiv * y + j[2]) - JitterDiv * h) * w]

\* rangle^2 = hypotf(rd.x, rd.y)^2
R2(r) == r.x * r.x + r.y * r.y

\* rmax^2, rmax = 0.5 * fov * (M_PIf / 180)
RMax2(w, h) == (JitterDiv * w * h) * (JitterDiv * w * h)

\* line 81: rangle < rmax
InFoV_Inclusive(r, w, h) == R2(r) <= RMax2(w, h)

InFoV(r, w, h) == R2(r) < RMax2(w, h)

\* ------------------------------------------------- lines 82-108: the ray
\* line 94
Direction_SwapXY(r) ==
  Vec(Term("rsin", r.y), Term("rsin", r.x), Term("racos", 1))

Direction(r) ==
  Vec(Term("rsin", r.x), Term("rsin", r.y), Term("racos", 1))

\* line 95
UpDirection(r) ==
  Vec(Term("rcos", -r.x), Term("rcos", -r.y), Term("rasin", 1))

\* line 96
RightDirection(r) ==
  Vec(Term("inv", r.y), Term("inv", -r.x), Term("one", 0))

\* line 101: eyeshift * powf(cross(ray_direction, cam_W), 5.0)
StereoShift(es, dir) == [eyeshift |-> es, pow |-> 5, cross |-> <<dir, cam_W>>]

\* lines 105-106: one application of the external dof_ray
DofRay(seed, r) ==
  [seed |-> seed, up |-> UpDirection(r), right |-> RightDirection(r)]

\* A ray is: base, the direction before dof_ray; shift, the terms added to
\* cam_pos; lens, the dof_ray applications to origin and direction; ops, the
\* order in which the two perturbations were applied.
MakeRay_DofAtCentre(stereo, dof, es, r, seed) ==
  IF R2(r) = 0
  THEN [base |-> cam_W, shift |-> <<>>,
        lens |-> IF dof = 1 THEN <<DofRay(seed, r)>> ELSE <<>>,
        ops |-> IF dof = 1 THEN <<"dof">> ELSE <<>>]
  ELSE [base  |-> Direction(r),
        shift |-> IF stereo = 1 THEN <<StereoShift(es, Direction(r))>> ELSE <<>>,
        lens  |-> IF dof = 1 THEN <<DofRay(seed, r)>> ELSE <<>>,
        ops   |-> (IF stereo = 1 THEN <<"stereo">> ELSE <<>>)
                  \o (IF dof = 1 THEN <<"dof">> ELSE <<>>)]

MakeRay_ShiftAlways(stereo, dof, es, r, seed) ==
  IF R2(r) = 0
  THEN [base |-> cam_W, shift |-> <<>>, lens |-> <<>>, ops |-> <<>>]
  ELSE [base  |-> Direction(r),
        shift |-> <<StereoShift(es, Direction(r))>>,
        lens  |-> IF dof = 1 THEN <<DofRay(seed, r)>> ELSE <<>>,
        ops   |-> <<"stereo">> \o (IF dof = 1 THEN <<"dof">> ELSE <<>>)]

MakeRay_DofFirst(stereo, dof, es, r, seed) ==
  IF R2(r) = 0
  THEN [base |-> cam_W, shift |-> <<>>, lens |-> <<>>, ops |-> <<>>]
  ELSE [base  |-> Direction(r),
        shift |-> IF stereo = 1 THEN <<StereoShift(es, Direction(r))>> ELSE <<>>,
        lens  |-> IF dof = 1 THEN <<DofRay(seed, r)>> ELSE <<>>,
        ops   |-> (IF dof = 1 THEN <<"dof">> ELSE <<>>)
                  \o (IF stereo = 1 THEN <<"stereo">> ELSE <<>>)]

MakeRay(stereo, dof, es, r, seed) ==
  IF R2(r) = 0
  THEN \* line 88: ray_direction = cam_W, ray_origin = cam_pos
       [base |-> cam_W, shift |-> <<>>, lens |-> <<>>, ops |-> <<>>]
  ELSE [base  |-> Direction(r),
        shift |-> IF stereo = 1 THEN <<StereoShift(es, Direction(r))>> ELSE <<>>,
        lens  |-> IF dof = 1 THEN <<DofRay(seed, r)>> ELSE <<>>,
        ops   |-> (IF stereo = 1 THEN <<"stereo">> ELSE <<>>)
                  \o (IF dof = 1 THEN <<"dof">> ELSE <<>>)]

\* lines 118-119
AddResult_Overwrite(acc, x) == x

AddResult(acc, x) == acc + x

\* -------------------------------------------------------- external inputs
\* jitter_offset2f: an offset in [0,1)^2, on a grid of JitterDiv steps
JitterSet == (0 .. JitterDiv - 1) \X (0 .. JitterDiv - 1)

\* what rtTrace leaves in prd: <<result, alpha>>
PrdOutcomes == {<<1, 1>>, <<2, 0>>}

\* tea<4>(launch_dim.x*launch_index.y + launch_index.x, subframe_count()):
\* the seed is kept as its hash input and the number of draws of each user
Tea(dim, idx) == [val0 |-> dim.x * idx.y + idx.x,
                  jitter |-> 0, dof |-> 0]

NoRay == [base |-> ZeroVec, shift |-> <<>>, lens |-> <<>>, ops |-> <<>>]

\* ------------------------------------------------------------------- Init
Init ==
  /\ STEREO_ON \in {0, 1}
  /\ DOF_ON \in {0, 1}
  /\ launch_dim \in [x : 1 .. MaxW, y : 1 .. MaxH]
  /\ STEREO_ON = 1 => launch_dim.y >= 2
  /\ launch_index \in [x : 0 .. MaxW - 1, y : 0 .. MaxH - 1]
  /\ launch_index.x < launch_dim.x
  /\ launch_index.y < launch_dim.y
  /\ aa_samples \in -1 .. MaxAA
  /\ pc = "entry"
  /\ viewport_sz_y = 0
  /\ viewport_idx_y = 0
  /\ eyeshift = 0
  /\ randseed = [val0 |-> 0, jitter |-> 0, dof |-> 0]
  /\ col = 0
  /\ alpha = 0
  /\ s = 0
  /\ up_direction = ZeroVec
  /\ right_direction = ZeroVec
  /\ jxy = <<0, 0>>
  /\ rd = [x |-> 0, y |-> 0]
  /\ hit = FALSE
  /\ traced = [s |-> 0, rd |-> [x |-> 0, y |-> 0], ray |-> NoRay]
  /\ nInside = 0
  /\ nTraced = 0
  /\ nOffCentre = 0
  /\ returned = EmptyBag
  /\ accumulated = <<>>

\* ---------------------------------------------------------------- actions
\* lines 28-68: everything before the sample loop
Setup ==
  /\ pc = "entry"
  /\ LET vp == ViewportPartition(STEREO_ON, launch_dim.y, launch_index.y)
     IN  /\ viewport_sz_y' = vp.sz
         /\ viewport_idx_y' = vp.idx
         /\ eyeshift' = vp.eyeshift
  /\ randseed' = Tea(launch_dim, launch_index)
  /\ col' = 0
  /\ alpha' = 0
  /\ s' = 0
  /\ pc' = "loop"
  /\ UNCHANGED <<params, up_direction, right_direction, jxy, rd, hit, traced,
                 nInside, nTraced, nOffCentre, returned, accumulated>>

\* lines 69-81 with rangle >= rmax: the iteration ends without a trace
SampleOutside ==
  /\ pc = "loop"
  /\ s < aa_samples
  /\ \E j \in JitterSet :
       LET r == RD(launch_dim.x, viewport_sz_y, launch_index.x,
                   viewport_idx_y, j)
       IN  /\ ~InFoV(r, launch_dim.x, viewport_sz_y)
           /\ jxy' = j
           /\ rd' = r
           /\ nInside' = nInside
                + (IF R2(r) < RMax2(launch_dim.x, viewport_sz_y) THEN 1 ELSE 0)
  /\ hit' = FALSE
  /\ randseed' = [randseed EXCEPT !.jitter = @ + 1]
  /\ s' = s + 1
  /\ UNCHANGED <<params, pc, viewport_sz_y, viewport_idx_y, eyeshift, col,
                 alpha, up_direction, right_direction, traced, nTraced,
                 nOffCentre, returned, accumulated>>

\* lines 69-117 with rangle < rmax: the ray is built and rtTrace is called
SampleTrace ==
  /\ pc = "loop"
  /\ s < aa_samples
  /\ \E j \in JitterSet :
       LET r    == RD(launch_dim.x, viewport_sz_y, launch_index.x,
                      viewport_idx_y, j)
           seed == [randseed EXCEPT !.jitter = @ + 1]
           ray  == MakeRay(STEREO_ON, DOF_ON, eyeshift, r, seed)
       IN  /\ InFoV(r, launch_dim.x, viewport_sz_y)
           /\ jxy' = j
           /\ rd' = r
           /\ nInside' = nInside
                + (IF R2(r) < RMax2(launch_dim.x, viewport_sz_y) THEN 1 ELSE 0)
           /\ traced' = [s |-> s, rd |-> r, ray |-> ray]
           /\ nOffCentre' = nOffCentre + (IF R2(r) # 0 THEN 1 ELSE 0)
           /\ randseed' = [seed EXCEPT !.dof = @ + Len(ray.lens)]
           /\ up_direction' = IF R2(r) = 0 THEN up_direction
                              ELSE UpDirection(r)
           /\ right_direction' = IF R2(r) = 0 THEN right_direction
                                 ELSE RightDirection(r)
  /\ hit' = TRUE
  /\ nTraced' = nTraced + 1
  /\ pc' = "trace"
  /\ UNCHANGED <<params, viewport_sz_y, viewport_idx_y, eyeshift, col, alpha,
                 s, returned, accumulated>>

\* lines 117-120: rtTrace returns, the payload is added, the iteration ends
TraceReturn ==
  /\ pc = "trace"
  /\ \E out \in PrdOutcomes :
       /\ returned' = returned (+) SetToBag({out})
       /\ col' = AddResult(col, out[1])
       /\ alpha' = AddResult(alpha, out[2])
  /\ s' = s + 1
  /\ pc' = "loop"
  /\ UNCHANGED <<params, viewport_sz_y, viewport_idx_y, eyeshift, randseed,
                 up_direction, right_direction, jxy, rd, hit, traced, nInside,
                 nTraced, nOffCentre, accumulated>>

\* lines 69, 123: the loop ends and accumulate_color(col, alpha) is called
Accumulate ==
  /\ pc = "loop"
  /\ ~(s < aa_samples)
  /\ accumulated' = Append(accumulated,
                           [col |-> col, alpha |-> alpha, calls |-> nTraced,
                            returns |-> BagCardinality(returned)])
  /\ pc' = "done"
  /\ UNCHANGED <<params, viewport_sz_y, viewport_idx_y, eyeshift, randseed,
                 col, alpha, s, up_direction, right_direction, jxy, rd, hit,
                 traced, nInside, nTraced, nOffCentre, returned>>

Next ==
  \/ Setup
  \/ SampleOutside
  \/ SampleTrace
  \/ TraceReturn
  \/ Accumulate

Spec == Init /\ [][Next]_vars

\* ---------------------------------------------------------------- helpers
RECURSIVE SumOver(_, _, _)
SumOver(S, b, k) ==
  IF S = {} THEN 0
  ELSE LET e == CHOOSE e \in S : TRUE
       IN  e[k] * CopiesIn(e, b) + SumOver(S \ {e}, b, k)

\* the sums of the result and of the alpha of the payloads in bag b
SumResult(b) == SumOver(BagToSet(b), b, 1)
SumAlpha(b) == SumOver(BagToSet(b), b, 2)

SetupDone == pc # "entry"

\* an iteration of the sample loop has started
Sampled == randseed.jitter > 0

\* rtTrace has been called: traced holds its arguments
Traced == nTraced > 0

\* rangle < rmax for the sample of the last started iteration
LastInside == R2(rd) < RMax2(launch_dim.x, viewport_sz_y)

\* ------------------------------------------------------------------ C1
\* C1 as stated: in the stereo variants the rows whose local row is the
\* global row get eye-shift -0.5*cam_stereo_eyesep and the rows whose local
\* row is the global row minus the half-height get +0.5*cam_stereo_eyesep;
\* without stereo the eye-shift is 0 and the local row is the global row.
C1_Original ==
  SetupDone =>
    /\ STEREO_ON = 1 =>
         /\ viewport_idx_y = launch_index.y => eyeshift = -1
         /\ viewport_idx_y = launch_index.y - viewport_sz_y => eyeshift = 1
    /\ STEREO_ON = 0 => eyeshift = 0 /\ viewport_idx_y = launch_index.y

\* C1 (amended): in the stereo variants a row below the half-height keeps its
\* row number and gets eye-shift +0.5*cam_stereo_eyesep (the code's "right
\* image"); a row at or above the half-height has local row = global row
\* minus half-height and gets -0.5*cam_stereo_eyesep (the code's "left
\* image"); without stereo the eye-shift is 0 and local row = global row.
C1_EyeShift ==
  SetupDone =>
    /\ STEREO_ON = 1 =>
         /\ viewport_sz_y = launch_dim.y \div 2
         /\ launch_index.y < viewport_sz_y =>
              viewport_idx_y = launch_index.y /\ eyeshift = 1
         /\ launch_index.y >= viewport_sz_y =>
              viewport_idx_y = launch_index.y - viewport_sz_y /\ eyeshift = -1
    /\ STEREO_ON = 0 =>
         /\ eyeshift = 0
         /\ viewport_idx_y = launch_index.y
         /\ viewport_sz_y = launch_dim.y

C1_Witness ==
  /\ pc = "loop"
  /\ STEREO_ON = 1
  /\ launch_index.y >= viewport_sz_y
  /\ viewport_idx_y = launch_index.y - viewport_sz_y
  /\ eyeshift = -1

\* ------------------------------------------------------------------ C2
C2_State ==
  /\ nTraced = nInside
  /\ Sampled => (hit <=> LastInside)
  /\ (Sampled /\ hit) => traced.rd = rd /\ traced.s = randseed.jitter - 1
  /\ Traced => nTraced <= aa_samples
  /\ BagCardinality(returned) = nTraced - (IF pc = "trace" THEN 1 ELSE 0)
  /\ col = SumResult(returned)
  /\ alpha = SumAlpha(returned)

\* a step that starts an iteration of the sample loop
C2_Iteration == randseed'.jitter = randseed.jitter + 1

C2_Step ==
  C2_Iteration =>
    IF R2(rd') < RMax2(launch_dim.x, viewport_sz_y)
    THEN nTraced' = nTraced + 1 /\ pc' = "trace"
    ELSE /\ nTraced' = nTraced
         /\ col' = col
         /\ alpha' = alpha
         /\ returned' = returned
         /\ s' = s + 1

\* C2: a sample with rangle >= rmax is never traced and leaves col and alpha
\* as they were; a sample with rangle < rmax is traced exactly once; so the
\* trace calls of an invocation are as many as its in-FoV samples, at most
\* aa_samples, and col and alpha hold the returned payloads of those only.
C2_FoVGate == [](C2_State) /\ [][C2_Step]_vars

C2_Witness ==
  /\ pc = "done"
  /\ aa_samples = 2
  /\ nTraced = 1
  /\ ~hit
  /\ R2(rd) = RMax2(launch_dim.x, viewport_sz_y)
  /\ col > 0

\* ------------------------------------------------------------------ C3
\* C3: in stereo mode a frame of height 2H is split into two H-row
\* sub-images: every row has a local row in [0,H) and one eye, the viewport
\* height of the projection is H, and row -> (eye, local row) is one-to-one
\* and onto.
C3_Partition ==
  (STEREO_ON = 1 /\ launch_dim.y % 2 = 0) =>
    LET H == launch_dim.y \div 2
        P(y) == ViewportPartition(1, launch_dim.y, y)
        Rows == 0 .. launch_dim.y - 1
    IN  /\ SetupDone =>
             /\ viewport_sz_y = H
             /\ viewport_idx_y \in 0 .. H - 1
             /\ eyeshift \in {-1, 1}
             /\ \A y \in Rows \ {launch_index.y} :
                  <<P(y).eyeshift, P(y).idx>> # <<eyeshift, viewport_idx_y>>
        /\ \A y \in Rows :
             /\ P(y).sz = H
             /\ P(y).idx \in 0 .. H - 1
             /\ P(y).eyeshift \in {-1, 1}
        /\ \A y1, y2 \in Rows :
             y1 # y2 =>
               <<P(y1).eyeshift, P(y1).idx>> # <<P(y2).eyeshift, P(y2).idx>>
        /\ \A e \in {-1, 1}, l \in 0 .. H - 1 :
             \E y \in Rows : P(y).eyeshift = e /\ P(y).idx = l

C3_Witness ==
  /\ pc = "done"
  /\ STEREO_ON = 1
  /\ launch_dim.y = 4
  /\ launch_index.y = 3
  /\ viewport_idx_y = 1
  /\ viewport_sz_y = 2
  /\ nTraced > 0

\* ------------------------------------------------------------------ C4
\* C4: the ray traced for a sample with rangle = 0 has direction cam_W
\* exactly, whatever STEREO_ON and DOF_ON are: dof_ray is not applied to it.
C4_CentreDirection ==
  (Traced /\ R2(traced.rd) = 0) =>
    traced.ray.base = cam_W /\ traced.ray.lens = <<>>

C4_Witness ==
  /\ pc = "trace"
  /\ STEREO_ON = 1
  /\ DOF_ON = 1
  /\ R2(traced.rd) = 0

\* ------------------------------------------------------------------ C5
\* C5: every invocation ends with exactly one accumulate_color call, made
\* after the last rtTrace call has returned, with col and alpha the sums of
\* the returned result and alpha over the traced samples (0 and 0 if none);
\* before that call the invocation can always take a step.
C5_AccumulateOnce ==
  /\ Len(accumulated) = IF pc = "done" THEN 1 ELSE 0
  /\ pc # "done" => ENABLED Next
  /\ pc = "done" =>
       /\ accumulated[1].col = SumResult(returned)
       /\ accumulated[1].alpha = SumAlpha(returned)
       /\ accumulated[1].calls = nTraced
       /\ accumulated[1].returns = nTraced
       /\ BagCardinality(returned) = nTraced
       /\ randseed.jitter = IF aa_samples > 0 THEN aa_samples ELSE 0

C5_Witness ==
  /\ pc = "done"
  /\ nTraced = 2
  /\ accumulated[1].col = 3
  /\ accumulated[1].alpha = 1

\* ------------------------------------------------------------------ C6
\* C6 as stated: without stereo, in a 2x2 viewport, no sample of pixel (0,0)
\* is traced, whatever the jitter, and the pixel accumulates 0 and 0.
C6_Original ==
  (SetupDone /\ STEREO_ON = 0 /\ launch_dim = [x |-> 2, y |-> 2]
     /\ launch_index = [x |-> 0, y |-> 0]) =>
    nTraced = 0 /\ col = 0 /\ alpha = 0

\* C6 (amended): without stereo, in a 2x2 viewport, a sample of pixel (0,0)
\* with jitter (jx, jy) is excluded exactly when (jx-1)^2 + (jy-1)^2 >= 1,
\* as for the zero jitter of the example, and is traced otherwise.
C6_CornerPixel ==
  (Sampled /\ STEREO_ON = 0 /\ launch_dim = [x |-> 2, y |-> 2]
     /\ launch_index = [x |-> 0, y |-> 0]) =>
    LET excluded == (jxy[1] - JitterDiv) * (jxy[1] - JitterDiv)
                      + (jxy[2] - JitterDiv) * (jxy[2] - JitterDiv)
                    >= JitterDiv * JitterDiv
    IN  /\ excluded <=> ~hit
        /\ jxy = <<0, 0>> => ~hit

C6_Witness ==
  /\ pc = "done"
  /\ STEREO_ON = 0
  /\ launch_dim = [x |-> 2, y |-> 2]
  /\ launch_index = [x |-> 0, y |-> 0]
  /\ aa_samples = 2
  /\ jxy = <<0, 0>>
  /\ ~hit
  /\ nTraced = 1

\* ------------------------------------------------------------------ C7
\* C7: with stereo and DOF both off, every traced ray starts at cam_pos:
\* nothing is added to the origin and dof_ray is not applied.
C7_OriginIsCamPos ==
  (Traced /\ STEREO_ON = 0 /\ DOF_ON = 0) =>
    traced.ray.shift = <<>> /\ traced.ray.lens = <<>>

C7_Witness ==
  /\ pc = "trace"
  /\ STEREO_ON = 0
  /\ DOF_ON = 0
  /\ nTraced = 2
  /\ R2(traced.rd) # 0

\* ------------------------------------------------------------------ C8
\* the rd of every sample position of the viewport
ViewportRD ==
  {RD(launch_dim.x, viewport_sz_y, x, y, j) :
     x \in 0 .. launch_dim.x - 1, y \in 0 .. viewport_sz_y - 1, j \in JitterSet}

\* the samples of the viewport at the angular distance of r, off r
SameRangle(r) == {q \in ViewportRD : R2(q) = R2(r) /\ q # r}

\* C8: at every rtTrace call for a sample with 0 < rangle < rmax the direction is
\* cam_U*(sin(rangle)/rangle)*rd.x + cam_V*(sin(rangle)/rangle)*rd.y
\* + cam_W*cos(rangle): its cam_W part depends on rangle only, and its
\* (cam_U, cam_V) part is rd scaled by one factor that depends on rangle
\* only, so it has the azimuth of rd; every sample of the viewport with the
\* same rangle and another rd gets the same cam_W part and the same factor.
C8_RadialSymmetry ==
  (pc = "trace" /\ R2(traced.rd) # 0) =>
    LET r == traced.rd
        d == traced.ray.base
    IN  /\ d.U = Term("rsin", r.x)
        /\ d.V = Term("rsin", r.y)
        /\ d.W = Term("racos", 1)
        /\ d.U.m * r.y = d.V.m * r.x
        /\ d.U.m * r.x + d.V.m * r.y > 0
        /\ \A q \in SameRangle(r) :
             LET e == MakeRay(STEREO_ON, DOF_ON, eyeshift, q, randseed).base
             IN  /\ e.W = d.W
                 /\ e.U.f = d.U.f
                 /\ e.V.f = d.V.f
                 /\ e.U.m * q.y = e.V.m * q.x
                 /\ e.U.m * q.x + e.V.m * q.y > 0
                 /\ e.U.m * e.U.m + e.V.m * e.V.m = d.U.m * d.U.m + d.V.m * d.V.m

C8_Witness ==
  /\ pc = "trace"
  /\ R2(traced.rd) # 0
  /\ traced.rd.x # traced.rd.y
  /\ SameRangle(traced.rd) # {}

\* ------------------------------------------------------------------ C9
\* C9 as stated: for every traced sample dof_ray is applied exactly once
\* when DOF_ON, and the origin is shifted by
\* eyeshift*powf(cross(ray_direction, cam_W), 5) when STEREO_ON (a shift that
\* is zero for ray_direction = cam_W, so no shift at the centre satisfies it).
C9_Original ==
  Traced =>
    /\ DOF_ON = 1 => Len(traced.ray.lens) = 1
    /\ (STEREO_ON = 1 /\ traced.ray.base # cam_W) =>
         traced.ray.shift = <<StereoShift(eyeshift, traced.ray.base)>>

\* C9 (amended): for every traced sample with rangle # 0: with STEREO_ON the
\* origin is cam_pos + eyeshift*powf(cross(ray_direction, cam_W), 5), with
\* DOF_ON dof_ray is applied exactly once, with the sample's seed state and
\* up/right basis, and the seed advances once for it; with both, the stereo
\* shift comes first.  For a traced sample with rangle = 0 neither is
\* applied: the ray is (cam_pos, cam_W) and dof_ray draws nothing.
C9_Perturbations ==
  /\ Traced =>
       LET ray == traced.ray
           r   == traced.rd
       IN  IF R2(r) = 0
           THEN ray.shift = <<>> /\ ray.lens = <<>> /\ ray.ops = <<>>
           ELSE /\ ray.shift = IF STEREO_ON = 1
                               THEN <<StereoShift(eyeshift, Direction(r))>>
                               ELSE <<>>
                /\ Len(ray.lens) = IF DOF_ON = 1 THEN 1 ELSE 0
                /\ DOF_ON = 1 =>
                     /\ ray.lens[1].up = UpDirection(r)
                     /\ ray.lens[1].right = RightDirection(r)
                     /\ ray.lens[1].seed.jitter = traced.s + 1
                     /\ ray.lens[1].seed.dof = randseed.dof - 1
                /\ ray.ops = (IF STEREO_ON = 1 THEN <<"stereo">> ELSE <<>>)
                             \o (IF DOF_ON = 1 THEN <<"dof">> ELSE <<>>)
  /\ randseed.dof = IF DOF_ON = 1 THEN nOffCentre ELSE 0
  /\ nOffCentre <= nTraced

C9_Witness ==
  /\ pc = "trace"
  /\ STEREO_ON = 1
  /\ DOF_ON = 1
  /\ nTraced = 2
  /\ R2(traced.rd) # 0
  /\ traced.ray.ops = <<"stereo", "dof">>
  /\ randseed.dof = 1

\* ----------------------------------------------------------------- C10
\* C10 as stated: in the stereo variants, for every frame height >= 2, even
\* or odd, 0 <= viewport_idx_y < viewport_sz_y.
C10_Original ==
  (SetupDone /\ STEREO_ON = 1) =>
    0 <= viewport_idx_y /\ viewport_idx_y < viewport_sz_y

\* C10 (amended): in the stereo variants, for every frame height >= 2,
\* launch_index.y - viewport_sz_y never wraps around and
\* 0 <= viewport_idx_y <= viewport_sz_y; viewport_idx_y < viewport_sz_y for
\* every row of an even frame height, and viewport_idx_y = viewport_sz_y
\* exactly for the last row of an odd one.
C10_LocalRowRange ==
  (SetupDone /\ STEREO_ON = 1) =>
    /\ viewport_sz_y = launch_dim.y \div 2
    /\ 0 <= viewport_idx_y
    /\ viewport_idx_y <= viewport_sz_y
    /\ viewport_idx_y = viewport_sz_y <=>
         (launch_dim.y % 2 = 1 /\ launch_index.y = launch_dim.y - 1)

C10_Witness ==
  /\ pc = "loop"
  /\ STEREO_ON = 1
  /\ launch_dim.y = 3
  /\ launch_index.y = 2
  /\ viewport_idx_y = 1
  /\ viewport_sz_y = 1

====
